---- MODULE Spec2Model ----
(***************************************************************************)
(* Tree / TreeRoot / FileBrowser widgets (src/src/tree.rs,                 *)
(* src/src/file_browser.rs) over a handle-addressed widget arena with a    *)
(* FIFO queue of routed messages.                                          *)
(***************************************************************************)
EXTENDS Integers, Sequences, FiniteSets, TLC

VARIABLES
    kind,         \* arena: handle -> node variant, for every live node
    parent,       \* arena: handle -> parent handle (NONE when unlinked)
    children,     \* arena: handle -> sequence of child handles
    widget,       \* arena: handle -> [visibility, background, text, user_data]
    tree,         \* Tree fields, for every live Tree
    troot,        \* TreeRoot fields, for every live TreeRoot
    browser,      \* FileBrowser fields, for every live FileBrowser
    queue,        \* messages sent and not yet polled, oldest first
    next_handle,  \* the next handle the pool hands out
    panicked,     \* a handler panicked: the program is gone
    filter_calls, \* the paths the filter closure was invoked on while the browser
                  \* last handled an Expand(true)
    last          \* the last message the environment sent, and what held then

vars == <<kind, parent, children, widget, tree, troot, browser, queue,
          next_handle, panicked, filter_calls, last>>

----------------------------------------------------------------------------
(* Bounds of the model.                                                    *)

\* the browser builds at most this many items after its construction
MaxBuilt == 3
\* the environment sends a message only while fewer than this many are queued
MaxQueue == 2
\* the environment sends at most this many messages while others wait
MaxSends == 3
\* the queue holds at most this many messages
MaxPending == 16
\* a SetItems or Items message carries at most this many handles
MaxItems == 2

----------------------------------------------------------------------------
(* Handles, paths and text.                                                *)

NONE == 0

\* Paths and text are sequences of characters.
P_empty == <<>>
P_a     == <<"/", "a">>
P_ab    == <<"/", "a", "/", "b">>
P_abb   == <<"/", "a", "/", "b", "b">>
P_abdot == <<"/", "a", "/", "b", "/", ".", "g">>
P_abc   == <<"/", "a", "/", "b", "/", "c">>
P_z     == <<"/", "z">>

T_Foobar == <<"F", "o", "o", "b", "a", "r">>
T_plus   == <<"+">>
T_minus  == <<"-">>

\* A unit of a path that is not valid Unicode, and what to_string_lossy puts for it.
InvalidUnit == "\\xFF"
ReplacementChar == "U+FFFD"

ToStringLossy(p) ==
    [i \in 1..Len(p) |-> IF p[i] = InvalidUnit THEN ReplacementChar ELSE p[i]]

StartsWith(s, prefix) ==
    /\ Len(prefix) <= Len(s)
    /\ \A i \in 1..Len(prefix) : s[i] = prefix[i]

\* str::replace(from, ""): every non-overlapping occurrence of from is dropped.
RECURSIVE ReplaceWithEmpty(_, _)
ReplaceWithEmpty(s, from) ==
    IF Len(from) = 0 \/ Len(s) = 0 THEN s
    ELSE IF StartsWith(s, from)
         THEN ReplaceWithEmpty(SubSeq(s, Len(from) + 1, Len(s)), from)
         ELSE <<Head(s)>> \o ReplaceWithEmpty(Tail(s), from)

\* Path equality compares components: separators repeated or trailing do not count.
RECURSIVE Components(_, _)
Components(p, cur) ==
    IF Len(p) = 0 THEN (IF Len(cur) = 0 THEN <<>> ELSE <<cur>>)
    ELSE IF Head(p) = "/"
         THEN (IF Len(cur) = 0 THEN <<>> ELSE <<cur>>) \o Components(Tail(p), <<>>)
         ELSE Components(Tail(p), Append(cur, Head(p)))

PathEq(p, q) ==
    /\ (Len(p) > 0 /\ p[1] = "/") = (Len(q) > 0 /\ q[1] = "/")
    /\ Components(p, <<>>) = Components(q, <<>>)

----------------------------------------------------------------------------
(* The file system the browser reads: a fixed directory tree.              *)

\* read_dir(p): the entries of directory p; <<FALSE, {}>> when p cannot be listed.
ReadDir(p) ==
    IF p = P_a THEN <<TRUE, {P_ab, P_abb}>>
    ELSE IF p = P_ab THEN <<TRUE, {P_abc, P_abdot}>>
    ELSE IF p = P_abb THEN <<TRUE, {}>>
    ELSE <<FALSE, {}>>

\* The orders in which the operating system may list a set of entries.
RECURSIVE Listings(_)
Listings(S) ==
    IF S = {} THEN {<<>>}
    ELSE UNION {{<<e>> \o l : l \in Listings(S \ {e})} : e \in S}

\* The name of the last component begins with a dot.
RECURSIVE LastSlash(_, _)
LastSlash(p, i) ==
    IF i = 0 THEN 0 ELSE IF p[i] = "/" THEN i ELSE LastSlash(p, i - 1)

IsDotName(p) ==
    LET s == LastSlash(p, Len(p)) IN s < Len(p) /\ p[s + 1] = "."

\* The filter closures a browser is built with: none, or one rejecting dot names.
Filters == {"none", "no_dot"}

----------------------------------------------------------------------------
(* The widget arena and the message queue (UserInterface, BuildContext).    *)
(* Operators take and return a record ui holding the whole program state.  *)

State ==
    [kind |-> kind, parent |-> parent, children |-> children, widget |-> widget,
     tree |-> tree, troot |-> troot, browser |-> browser, queue |-> queue,
     next_handle |-> next_handle, panicked |-> panicked,
     filter_calls |-> filter_calls]

EmptyUi ==
    [kind |-> <<>>, parent |-> <<>>, children |-> <<>>, widget |-> <<>>,
     tree |-> <<>>, troot |-> <<>>, browser |-> <<>>, queue |-> <<>>,
     next_handle |-> 1, panicked |-> FALSE, filter_calls |-> <<>>]

IsValidHandle(ui, h) == h \in DOMAIN ui.kind

Panic(ui) == [ui EXCEPT !.panicked = TRUE]

\* A message: destination, payload (type, msg, the payload's value) and handled flag.
\* One of the payload fields handle, flag, list, text, brush carries the value.
Message(dst, type, msg) ==
    [destination |-> dst, type |-> type, msg |-> msg, handled |-> FALSE,
     handle |-> NONE, flag |-> FALSE, list |-> <<>>, text |-> <<>>, brush |-> "none"]

MsgHandle(dst, type, msg, h) == [Message(dst, type, msg) EXCEPT !.handle = h]
MsgFlag(dst, type, msg, b) == [Message(dst, type, msg) EXCEPT !.flag = b]
MsgList(dst, type, msg, l) == [Message(dst, type, msg) EXCEPT !.list = l]
MsgText(dst, type, msg, t) == [Message(dst, type, msg) EXCEPT !.text = t]
MsgBrush(dst, type, msg, b) == [Message(dst, type, msg) EXCEPT !.brush = b]

send_message(ui, m) == [ui EXCEPT !.queue = Append(@, m)]

RECURSIVE SendAll(_, _)
SendAll(ui, ms) ==
    IF Len(ms) = 0 THEN ui ELSE SendAll(send_message(ui, Head(ms)), Tail(ms))

RemoveAt(s, pos) == SubSeq(s, 1, pos - 1) \o SubSeq(s, pos + 1, Len(s))

\* The first position of x in s, 0 when x is not in s.
Position(s, x) ==
    IF \E i \in 1..Len(s) : s[i] = x
    THEN CHOOSE i \in 1..Len(s) : s[i] = x /\ \A j \in 1..(i - 1) : s[j] # x
    ELSE 0

Range(s) == {s[i] : i \in 1..Len(s)}

\* Detach a node from its parent.
unlink_node(ui, child) ==
    LET p == ui.parent[child] IN
    IF p = NONE THEN ui
    ELSE [ui EXCEPT !.parent[child] = NONE,
                    !.children[p] = SelectSeq(@, LAMBDA c : c # child)]

\* Reparent child under new_parent, as its last child. A dead handle is a panic.
link_nodes(ui, child, new_parent) ==
    IF ui.panicked THEN ui
    ELSE IF ~IsValidHandle(ui, child) \/ ~IsValidHandle(ui, new_parent) THEN Panic(ui)
    ELSE LET u == unlink_node(ui, child) IN
         [u EXCEPT !.parent[child] = new_parent,
                   !.children[new_parent] = Append(@, child)]

RECURSIVE LinkAll(_, _, _)
LinkAll(ui, items, new_parent) ==
    IF Len(items) = 0 THEN ui
    ELSE LinkAll(link_nodes(ui, Head(items), new_parent), Tail(items), new_parent)

NoData == [has |-> FALSE, path |-> <<>>]
PathData(p) == [has |-> TRUE, path |-> p]

WidgetOf(visibility, background, text, user_data) ==
    [visibility |-> visibility, background |-> background, text |-> text,
     user_data |-> user_data]

PlainWidget == WidgetOf(TRUE, "none", <<>>, NoData)

\* Put a node into the pool and link its children under it.
\* NONE among the children is skipped (WidgetBuilder::with_child).
add_node(ui, k, kids, w) ==
    LET h == ui.next_handle
        u == [ui EXCEPT !.kind = @ @@ (h :> k),
                        !.parent = @ @@ (h :> NONE),
                        !.children = @ @@ (h :> <<>>),
                        !.widget = @ @@ (h :> w),
                        !.next_handle = h + 1]
    IN LinkAll(u, SelectSeq(kids, LAMBDA c : c # NONE), h)

\* The nearest node of variant k on the chain from start upwards, NONE if none.
RECURSIVE find_by_criteria_up(_, _, _)
find_by_criteria_up(ui, start, k) ==
    IF start = NONE \/ ~IsValidHandle(ui, start) THEN NONE
    ELSE IF ui.kind[start] = k THEN start
    ELSE find_by_criteria_up(ui, ui.parent[start], k)

\* A node and everything below it.
RECURSIVE Subtree(_, _, _)
Subtree(ui, stack, acc) ==
    IF Len(stack) = 0 THEN acc
    ELSE LET h == stack[Len(stack)] IN
         Subtree(ui, SubSeq(stack, 1, Len(stack) - 1) \o ui.children[h], acc \cup {h})

----------------------------------------------------------------------------
(* Builders.                                                               *)

\* TreeBuilder::new: the defaults of a Tree under construction.
TreeBuilder_new(user_data) ==
    [user_data |-> user_data, items |-> <<>>, content |-> NONE,
     is_expanded |-> TRUE,
     selected_brush |-> "selected", hovered_brush |-> "hovered",
     normal_brush |-> "normal", always_show_expander |-> FALSE]

\* The handle TreeBuilder::build returns when it starts from ui: the build adds
\* the expander's label, the expander, the inner grid, the background border,
\* the panel and the outer grid before the Tree itself.
TreeHandleAt(ui) == ui.next_handle + 6

\* TreeBuilder::build.
TreeBuilder_build(ui, b) ==
    LET h == ui.next_handle
        label == h
        expander == h + 1
        inner == h + 2
        item_background == h + 3
        panel == h + 4
        grid == h + 5
        u1 == add_node(ui, "Text", <<>>, WidgetOf(TRUE, "none", T_plus, NoData))
        u2 == add_node(u1, "Button", <<label>>,
                  WidgetOf(b.always_show_expander \/ Len(b.items) # 0, "none", <<>>, NoData))
        u3 == add_node(u2, "Grid", <<expander, b.content>>, PlainWidget)
        u4 == add_node(u3, "Border", <<inner>>,
                  WidgetOf(TRUE, b.normal_brush, <<>>, NoData))
        u5 == add_node(u4, "StackPanel", b.items, PlainWidget)
        u6 == add_node(u5, "Grid", <<item_background, panel>>, PlainWidget)
        u7 == add_node(u6, "Tree", <<grid>>, WidgetOf(TRUE, "none", <<>>, b.user_data))
    IN [u7 EXCEPT !.tree = @ @@ ((h + 6) :>
            [expander |-> expander,
             content |-> b.content,
             panel |-> panel,
             is_expanded |-> b.is_expanded,
             background |-> item_background,
             items |-> b.items,
             is_selected |-> FALSE,
             selected_brush |-> b.selected_brush,
             hovered_brush |-> b.hovered_brush,
             normal_brush |-> b.normal_brush,
             always_show_expander |-> b.always_show_expander])]

\* The handle TreeRootBuilder::build returns when it starts from ui (after the panel).
TreeRootHandleAt(ui) == ui.next_handle + 1

\* TreeRootBuilder::build, with_items(items).
TreeRootBuilder_build(ui, items) ==
    LET panel == ui.next_handle
        u1 == add_node(ui, "StackPanel", items, PlainWidget)
        u2 == add_node(u1, "TreeRoot", <<panel>>, PlainWidget)
    IN [u2 EXCEPT !.troot = @ @@ ((panel + 1) :>
            [panel |-> panel, items |-> items, selected |-> NONE])]

\* build_tree_item: a collapsed Tree carrying path, labelled with the path less
\* the parent's path; its expander always shows when the directory has entries.
BuildTreeItemHandleAt(ui) == ui.next_handle + 7

build_tree_item(ui, path, parent_path) ==
    LET rd == ReadDir(path)
        is_dir_empty == IF rd[1] THEN rd[2] = {} ELSE TRUE
        content == ui.next_handle
        u1 == add_node(ui, "Text", <<>>,
                  WidgetOf(TRUE, "none",
                           ReplaceWithEmpty(ToStringLossy(path), ToStringLossy(parent_path)),
                           NoData))
    IN TreeBuilder_build(u1,
           [TreeBuilder_new(PathData(path)) EXCEPT
                !.is_expanded = FALSE,
                !.always_show_expander = ~is_dir_empty,
                !.content = content])

\* build_tree: build the item and ask the parent to add it.
build_tree(ui, parent_handle, is_parent_root, path, parent_path) ==
    LET t == BuildTreeItemHandleAt(ui)
        type == IF is_parent_root THEN "TreeRoot" ELSE "Tree"
    IN send_message(build_tree_item(ui, path, parent_path),
                    MsgHandle(parent_handle, type, "AddItem", t))

\* FileBrowserBuilder::build with_path(path) and the given filter: the root item,
\* the TreeRoot, the scroll viewer, the path text box ("Foobar"), the grid, the browser.
FileBrowserBuilder_build(ui, path, filter) ==
    LET item == BuildTreeItemHandleAt(ui)
        tree_root == item + 2
        scroll_viewer == item + 3
        path_text == item + 4
        grid == item + 5
        u1 == build_tree_item(ui, path, P_empty)
        u2 == TreeRootBuilder_build(u1, <<item>>)
        u3 == add_node(u2, "ScrollViewer", <<tree_root>>, PlainWidget)
        u4 == add_node(u3, "TextBox", <<>>, WidgetOf(TRUE, "none", T_Foobar, NoData))
        u5 == add_node(u4, "Grid", <<path_text, scroll_viewer>>, PlainWidget)
        u6 == add_node(u5, "FileBrowser", <<grid>>, PlainWidget)
    IN [u6 EXCEPT !.browser = @ @@ ((grid + 1) :>
            [tree_root |-> tree_root,
             path |-> path,
             path_text |-> path_text,
             selection |-> P_empty,
             filter |-> filter])]

----------------------------------------------------------------------------
(* find_tree.                                                              *)

\* The result of a lookup: a handle, or the lookup panicked (a dead handle in an
\* items list, or a node that is neither Tree nor TreeRoot).
Found(h) == [panic |-> FALSE, handle |-> h]
LookupPanic == [panic |-> TRUE, handle |-> NONE]

\* find_tree(node, path, ui): the Tree below node the lookup of path returns.
\* A Tree matches when its path's text starts with the text of path; the first
\* item with a match below it overrides the Tree itself.
RECURSIVE find_tree(_, _, _)
RECURSIVE find_in_items(_, _, _, _)
find_in_items(ui, items, path, otherwise) ==
    IF Len(items) = 0 THEN Found(otherwise)
    ELSE LET r == find_tree(ui, Head(items), path) IN
         IF r.panic THEN r
         ELSE IF r.handle # NONE THEN r
         ELSE find_in_items(ui, Tail(items), path, otherwise)

find_tree(ui, node, path) ==
    IF ~IsValidHandle(ui, node) THEN LookupPanic
    ELSE IF ui.kind[node] = "Tree" THEN
        IF ~ui.widget[node].user_data.has THEN LookupPanic
        ELSE LET tree_path == ui.widget[node].user_data.path
                 own == IF StartsWith(ToStringLossy(tree_path), ToStringLossy(path))
                        THEN node ELSE NONE
             IN find_in_items(ui, ui.tree[node].items, path, own)
    ELSE IF ui.kind[node] = "TreeRoot" THEN
        find_in_items(ui, ui.troot[node].items, path, NONE)
    ELSE LookupPanic

----------------------------------------------------------------------------
(* Tree::handle_routed_message. A handler takes the context c of one        *)
(* delivery, [ui, message, listing], and the handle of the node handling it.*)

WithUi(c, u) == [c EXCEPT !.ui = u]

\* ButtonMessage::Click: a click destined for the expander asks the Tree to toggle.
Tree_Click(c, self) ==
    LET t == c.ui.tree[self] IN
    IF c.message.destination = t.expander
    THEN WithUi(c, send_message(c.ui, MsgFlag(self, "Tree", "Expand", ~t.is_expanded)))
    ELSE c

\* MouseDown that asks the TreeRoot without claiming the message.
Tree_MouseDown_Unclaimed(c, self) ==
    IF c.message.handled THEN c
    ELSE LET root == find_by_criteria_up(c.ui, c.ui.parent[self], "TreeRoot") IN
         IF root # NONE
         THEN WithUi(c, send_message(c.ui, MsgHandle(root, "TreeRoot", "Selected", self)))
         ELSE c

\* WidgetMessage::MouseDown: unclaimed, ask the nearest TreeRoot above to select self.
Tree_MouseDown(c, self) ==
    IF c.message.handled THEN c
    ELSE LET root == find_by_criteria_up(c.ui, c.ui.parent[self], "TreeRoot") IN
         IF root # NONE
         THEN [c EXCEPT !.ui = send_message(c.ui, MsgHandle(root, "TreeRoot", "Selected", self)),
                        !.message.handled = TRUE]
         ELSE c

\* A MouseEnter or MouseLeave that paints the background of a selected Tree too.
Tree_MouseEnterLeave_Always(c, self, brush) ==
    IF c.message.handled THEN c
    ELSE [c EXCEPT !.ui = send_message(c.ui, MsgBrush(c.ui.tree[self].background, "Widget",
                                                      "Background", brush)),
                   !.message.handled = TRUE]

\* WidgetMessage::MouseEnter / MouseLeave: paint the background unless selected.
Tree_MouseEnterLeave(c, self, brush) ==
    IF c.message.handled THEN c
    ELSE LET t == c.ui.tree[self]
             u == IF ~t.is_selected
                  THEN send_message(c.ui, MsgBrush(t.background, "Widget", "Background", brush))
                  ELSE c.ui
         IN [c EXCEPT !.ui = u, !.message.handled = TRUE]

\* Expand(expand) that shows or hides the panel and leaves the label alone.
Tree_Expand_NoLabel(c, self, expand) ==
    LET u1 == [c.ui EXCEPT !.tree[self].is_expanded = expand] IN
    WithUi(c, send_message(u1, MsgFlag(u1.tree[self].panel, "Widget", "Visibility", expand)))

\* TreeMessage::Expand(expand).
Tree_Expand(c, self, expand) ==
    LET u1 == [c.ui EXCEPT !.tree[self].is_expanded = expand]
        t == u1.tree[self]
        u2 == send_message(u1, MsgFlag(t.panel, "Widget", "Visibility", t.is_expanded))
    IN IF ~IsValidHandle(u2, t.expander) THEN WithUi(c, Panic(u2))
       ELSE IF u2.kind[t.expander] = "Button" /\ Len(u2.children[t.expander]) > 0
       THEN LET content == u2.children[t.expander][1]
                text == IF expand THEN T_minus ELSE T_plus
            IN WithUi(c, send_message(u2, MsgText(content, "Text", "Text", text)))
       ELSE WithUi(c, u2)

\* TreeMessage::AddItem(item).
Tree_AddItem(c, self, item) ==
    LET u1 == link_nodes(c.ui, item, c.ui.tree[self].panel) IN
    IF u1.panicked THEN WithUi(c, u1)
    ELSE WithUi(c, [u1 EXCEPT !.tree[self].items = Append(@, item)])

\* TreeMessage::RemoveItem(item).
Tree_RemoveItem(c, self, item) ==
    LET pos == Position(c.ui.tree[self].items, item) IN
    IF pos # 0
    THEN LET u1 == send_message(c.ui, Message(item, "Widget", "Remove")) IN
         WithUi(c, [u1 EXCEPT !.tree[self].items = RemoveAt(@, pos)])
    ELSE c

\* TreeMessage::SetItems(items).
Tree_SetItems(c, self, items) ==
    LET old == c.ui.tree[self].items
        u1 == SendAll(c.ui, [i \in 1..Len(old) |-> Message(old[i], "Widget", "Remove")])
        u2 == LinkAll(u1, items, u1.tree[self].panel)
    IN IF u2.panicked THEN WithUi(c, u2)
       ELSE WithUi(c, [u2 EXCEPT !.tree[self].items = items])

Tree_handle_routed_message(c, self) ==
    LET m == c.message IN
    IF m.type = "Button" THEN
        IF m.msg = "Click" THEN Tree_Click(c, self) ELSE c
    ELSE IF m.type = "Widget" THEN
        IF m.msg = "MouseDown" THEN Tree_MouseDown(c, self)
        ELSE IF m.msg = "MouseEnter"
             THEN Tree_MouseEnterLeave(c, self, c.ui.tree[self].hovered_brush)
        ELSE IF m.msg = "MouseLeave"
             THEN Tree_MouseEnterLeave(c, self, c.ui.tree[self].normal_brush)
        ELSE c
    ELSE IF m.type = "Tree" THEN
        IF m.destination = self THEN
            IF m.msg = "Expand" THEN Tree_Expand(c, self, m.flag)
            ELSE IF m.msg = "AddItem" THEN Tree_AddItem(c, self, m.handle)
            ELSE IF m.msg = "RemoveItem" THEN Tree_RemoveItem(c, self, m.handle)
            ELSE IF m.msg = "SetItems" THEN Tree_SetItems(c, self, m.list)
            ELSE c
        ELSE c
    ELSE c

\* Tree::remove_ref(handle), for every handle of the set removed.
Tree_remove_ref(t, removed) ==
    [t EXCEPT !.expander = IF @ \in removed THEN NONE ELSE @,
              !.content = IF @ \in removed THEN NONE ELSE @,
              !.panel = IF @ \in removed THEN NONE ELSE @,
              !.background = IF @ \in removed THEN NONE ELSE @]

----------------------------------------------------------------------------
(* TreeRoot::handle_routed_message.                                        *)

TreeRoot_AddItem(c, self, item) ==
    LET u1 == link_nodes(c.ui, item, c.ui.troot[self].panel) IN
    IF u1.panicked THEN WithUi(c, u1)
    ELSE WithUi(c, [u1 EXCEPT !.troot[self].items = Append(@, item)])

TreeRoot_RemoveItem(c, self, item) ==
    LET pos == Position(c.ui.troot[self].items, item) IN
    IF pos # 0
    THEN LET u1 == send_message(c.ui, Message(item, "Widget", "Remove")) IN
         WithUi(c, [u1 EXCEPT !.troot[self].items = RemoveAt(@, pos)])
    ELSE c

TreeRoot_Items(c, self, items) ==
    LET old == c.ui.troot[self].items
        u1 == SendAll(c.ui, [i \in 1..Len(old) |-> Message(old[i], "Widget", "Remove")])
        u2 == LinkAll(u1, items, u1.troot[self].panel)
    IN IF u2.panicked THEN WithUi(c, u2)
       ELSE WithUi(c, [u2 EXCEPT !.troot[self].items = items])

\* A traversal of Selected that does not look below a Tree it has found.
RECURSIVE SelectTraverse_TopOnly(_, _, _, _)
SelectTraverse_TopOnly(ui, self, stack, selected) ==
    IF Len(stack) = 0 THEN ui
    ELSE LET handle == stack[Len(stack)]
             popped == SubSeq(stack, 1, Len(stack) - 1)
         IN IF ui.kind[handle] = "Tree"
            THEN LET t == ui.tree[handle]
                     select == (handle = selected)
                     brush == IF select THEN t.selected_brush ELSE t.normal_brush
                     u1 == [ui EXCEPT !.tree[handle].is_selected = select]
                     u2 == IF select THEN [u1 EXCEPT !.troot[self].selected = selected]
                           ELSE u1
                     u3 == send_message(u2, MsgBrush(t.background, "Widget", "Background", brush))
                 IN SelectTraverse_TopOnly(u3, self, popped, selected)
            ELSE SelectTraverse_TopOnly(ui, self, popped \o ui.children[handle], selected)

\* The traversal of Selected: pop a node, push its children, and for a Tree set
\* its flag, take it as selected when it is the one asked for, and send its brush.
RECURSIVE SelectTraverse(_, _, _, _)
SelectTraverse(ui, self, stack, selected) ==
    IF Len(stack) = 0 THEN ui
    ELSE LET handle == stack[Len(stack)]
             rest == SubSeq(stack, 1, Len(stack) - 1) \o ui.children[handle]
         IN IF ui.kind[handle] = "Tree"
            THEN LET t == ui.tree[handle]
                     select == (handle = selected)
                     brush == IF select THEN t.selected_brush ELSE t.normal_brush
                     u1 == [ui EXCEPT !.tree[handle].is_selected = select]
                     u2 == IF select THEN [u1 EXCEPT !.troot[self].selected = selected]
                           ELSE u1
                     u3 == send_message(u2, MsgBrush(t.background, "Widget", "Background", brush))
                 IN SelectTraverse(u3, self, rest, selected)
            ELSE SelectTraverse(ui, self, rest, selected)

\* Selected(selected) that marks the Tree asked for and leaves the others alone.
TreeRoot_Selected_KeepOthers(c, self, selected) ==
    IF c.ui.troot[self].selected # selected
       /\ selected \in Subtree(c.ui, c.ui.children[self], {})
       /\ c.ui.kind[selected] = "Tree"
    THEN LET u1 == [c.ui EXCEPT !.tree[selected].is_selected = TRUE,
                                !.troot[self].selected = selected]
         IN WithUi(c, send_message(u1, MsgBrush(u1.tree[selected].background, "Widget",
                                                "Background", u1.tree[selected].selected_brush)))
    ELSE c

\* TreeRootMessage::Selected(selected).
TreeRoot_Selected(c, self, selected) ==
    IF c.ui.troot[self].selected # selected
    THEN WithUi(c, SelectTraverse(c.ui, self, c.ui.children[self], selected))
    ELSE c

TreeRoot_handle_routed_message(c, self) ==
    LET m == c.message IN
    IF m.type = "TreeRoot" /\ m.destination = self THEN
        IF m.msg = "AddItem" THEN TreeRoot_AddItem(c, self, m.handle)
        ELSE IF m.msg = "RemoveItem" THEN TreeRoot_RemoveItem(c, self, m.handle)
        ELSE IF m.msg = "Items" THEN TreeRoot_Items(c, self, m.list)
        ELSE IF m.msg = "Selected" THEN TreeRoot_Selected(c, self, m.handle)
        ELSE c
    ELSE c

\* TreeRoot::remove_ref(handle), for every handle of the set removed.
TreeRoot_remove_ref(r, removed) ==
    [r EXCEPT !.panel = IF @ \in removed THEN NONE ELSE @,
              !.selected = IF @ \in removed THEN NONE ELSE @]

----------------------------------------------------------------------------
(* FileBrowser::handle_routed_message.                                     *)

\* Path(path) that builds the item for path without emptying the root first.
FileBrowser_Path_KeepOld(c, self, path) ==
    WithUi(c, build_tree(c.ui, c.ui.browser[self].tree_root, TRUE, path, P_empty))

\* FileBrowserMessage::Path(path): empty the root, then build one item for path.
FileBrowser_Path(c, self, path) ==
    LET b == c.ui.browser[self]
        u1 == send_message(c.ui, MsgList(b.tree_root, "TreeRoot", "Items", <<>>))
    IN WithUi(c, build_tree(u1, b.tree_root, TRUE, path, P_empty))

\* SelectionChanged(path) that leaves the selection field as it was.
FileBrowser_SelectionChanged_NoCommit(c, self, path) ==
    LET b == c.ui.browser[self] IN
    IF ~PathEq(b.selection, path)
    THEN LET found == find_tree(c.ui, b.tree_root, path) IN
         IF found.panic THEN WithUi(c, Panic(c.ui))
         ELSE IF found.handle # NONE
         THEN LET u2 == send_message(c.ui, MsgText(b.path_text, "Text", "Text", ToStringLossy(path)))
              IN WithUi(c, send_message(u2,
                     MsgHandle(b.tree_root, "TreeRoot", "Selected", found.handle)))
         ELSE c
    ELSE c

\* SelectionChanged(path) that commits and asks the root, without setting the text.
FileBrowser_SelectionChanged_NoText(c, self, path) ==
    LET b == c.ui.browser[self] IN
    IF ~PathEq(b.selection, path)
    THEN LET found == find_tree(c.ui, b.tree_root, path) IN
         IF found.panic THEN WithUi(c, Panic(c.ui))
         ELSE IF found.handle # NONE
         THEN WithUi(c, send_message([c.ui EXCEPT !.browser[self].selection = path],
                     MsgHandle(b.tree_root, "TreeRoot", "Selected", found.handle)))
         ELSE c
    ELSE c

\* FileBrowserMessage::SelectionChanged(path).
FileBrowser_SelectionChanged(c, self, path) ==
    LET b == c.ui.browser[self] IN
    IF ~PathEq(b.selection, path)
    THEN LET found == find_tree(c.ui, b.tree_root, path) IN
         IF found.panic THEN WithUi(c, Panic(c.ui))
         ELSE IF found.handle # NONE
         THEN LET u1 == [c.ui EXCEPT !.browser[self].selection = path]
                  u2 == send_message(u1, MsgText(b.path_text, "Text", "Text", ToStringLossy(path)))
              IN WithUi(c, send_message(u2,
                     MsgHandle(b.tree_root, "TreeRoot", "Selected", found.handle)))
         ELSE c
    ELSE c

\* Text(txt) that takes txt as the selection at once.
FileBrowser_Text_Commit(c, self, txt) ==
    LET b == c.ui.browser[self]
        found == find_tree(c.ui, b.tree_root, txt)
    IN IF found.panic THEN WithUi(c, Panic(c.ui))
       ELSE IF found.handle # NONE
       THEN WithUi(c, send_message([c.ui EXCEPT !.browser[self].selection = txt],
                MsgHandle(b.tree_root, "TreeRoot", "Selected", found.handle)))
       ELSE c

\* TextBoxMessage::Text(txt) destined for the path text box.
FileBrowser_Text(c, self, txt) ==
    LET b == c.ui.browser[self]
        found == find_tree(c.ui, b.tree_root, txt)
    IN IF found.panic THEN WithUi(c, Panic(c.ui))
       ELSE IF found.handle # NONE
       THEN WithUi(c, send_message(c.ui,
                MsgHandle(b.tree_root, "TreeRoot", "Selected", found.handle)))
       ELSE c

\* The filter closure applied to a path.
ApplyFilter(filter, path) ==
    IF filter = "no_dot" THEN ~IsDotName(path) ELSE TRUE

\* The loop over the listed entries that asks the filter and builds every entry.
RECURSIVE EnumerateEntries_BuildAll(_, _, _, _, _)
EnumerateEntries_BuildAll(ui, filter, destination, entries, parent_path) ==
    IF Len(entries) = 0 THEN ui
    ELSE LET path == Head(entries)
             u1 == IF filter # "none"
                   THEN [ui EXCEPT !.filter_calls = Append(@, path)]
                   ELSE ui
         IN EnumerateEntries_BuildAll(build_tree(u1, destination, FALSE, path, parent_path),
                                      filter, destination, Tail(entries), parent_path)

\* The loop over the listed entries: ask the filter, build the accepted ones.
RECURSIVE EnumerateEntries(_, _, _, _, _)
EnumerateEntries(ui, filter, destination, entries, parent_path) ==
    IF Len(entries) = 0 THEN ui
    ELSE LET path == Head(entries)
             u1 == IF filter # "none"
                   THEN [ui EXCEPT !.filter_calls = Append(@, path)]
                   ELSE ui
             build == ApplyFilter(filter, path)
             u2 == IF build THEN build_tree(u1, destination, FALSE, path, parent_path) ELSE u1
         IN EnumerateEntries(u2, filter, destination, Tail(entries), parent_path)

\* TreeMessage::Expand(true) seen by the browser: enumerate the directory.
FileBrowser_ExpandTrue(c, self) ==
    LET dst == c.message.destination
        u == [c.ui EXCEPT !.filter_calls = <<>>]
    IN
    IF u.kind[dst] = "Tree"
    THEN IF ~u.widget[dst].user_data.has THEN WithUi(c, Panic(u))
         ELSE LET parent_path == u.widget[dst].user_data.path IN
              IF ReadDir(parent_path)[1]
              THEN WithUi(c, EnumerateEntries(u, u.browser[self].filter, dst,
                                              c.listing, parent_path))
              ELSE WithUi(c, u)
    ELSE WithUi(c, Panic(u))

\* Expand(false) seen by a browser that leaves the items of the Tree in place.
FileBrowser_ExpandFalse_KeepItems(c, self) == c

\* TreeMessage::Expand(false) seen by the browser: drop the items of the Tree.
FileBrowser_ExpandFalse(c, self) ==
    WithUi(c, send_message(c.ui, MsgList(c.message.destination, "Tree", "SetItems", <<>>)))

\* TreeRootMessage::Selected(selection) destined for the browser's TreeRoot.
FileBrowser_Selected(c, self, selection) ==
    IF ~IsValidHandle(c.ui, selection) THEN WithUi(c, Panic(c.ui))
    ELSE IF ~c.ui.widget[selection].user_data.has THEN WithUi(c, Panic(c.ui))
    ELSE LET path == c.ui.widget[selection].user_data.path IN
         IF ~PathEq(c.ui.browser[self].selection, path)
         THEN WithUi(c, send_message(c.ui, MsgText(self, "FileBrowser", "SelectionChanged", path)))
         ELSE c

FileBrowser_handle_routed_message(c, self) ==
    LET m == c.message
        b == c.ui.browser[self]
    IN
    IF m.type = "FileBrowser" THEN
        IF m.destination = self THEN
            IF m.msg = "Path" THEN FileBrowser_Path(c, self, m.text)
            ELSE IF m.msg = "SelectionChanged" THEN FileBrowser_SelectionChanged(c, self, m.text)
            ELSE c
        ELSE c
    ELSE IF m.type = "TextBox" THEN
        IF m.destination = b.path_text /\ m.msg = "Text"
        THEN FileBrowser_Text(c, self, m.text) ELSE c
    ELSE IF m.type = "Tree" THEN
        IF m.msg = "Expand"
        THEN (IF m.flag THEN FileBrowser_ExpandTrue(c, self) ELSE FileBrowser_ExpandFalse(c, self))
        ELSE c
    ELSE IF m.type = "TreeRoot" THEN
        IF m.destination = b.tree_root /\ m.msg = "Selected"
        THEN FileBrowser_Selected(c, self, m.handle) ELSE c
    ELSE c

\* FileBrowser::remove_ref(handle), for every handle of the set removed.
FileBrowser_remove_ref(b, removed) ==
    [b EXCEPT !.tree_root = IF @ \in removed THEN NONE ELSE @,
              !.path_text = IF @ \in removed THEN NONE ELSE @]

----------------------------------------------------------------------------
(* resolve(node_map): a raw copy's handles are rewritten through the map   *)
(* from the handles of the source arena to those of the copy. Each         *)
(* operator returns the node and whether an unwrap of a missing entry      *)
(* panicked.                                                               *)

Resolved(node) == [panic |-> FALSE, node |-> node]
ResolvePanic(node) == [panic |-> TRUE, node |-> node]

\* Tree::resolve that unwraps the entry of content as well.
Tree_resolve_StrictContent(t, node_map) ==
    IF {t.content, t.expander, t.panel, t.background} \subseteq DOMAIN node_map
    THEN Resolved([t EXCEPT !.content = node_map[@],
                            !.expander = node_map[@],
                            !.panel = node_map[@],
                            !.background = node_map[@]])
    ELSE ResolvePanic(t)

\* Tree::resolve.
Tree_resolve(t, node_map) ==
    LET t1 == IF t.content \in DOMAIN node_map
              THEN [t EXCEPT !.content = node_map[@]] ELSE t
    IN IF t.expander \notin DOMAIN node_map THEN ResolvePanic(t)
       ELSE IF t.panel \notin DOMAIN node_map THEN ResolvePanic(t)
       ELSE IF t.background \notin DOMAIN node_map THEN ResolvePanic(t)
       ELSE Resolved([t1 EXCEPT !.expander = node_map[@],
                                !.panel = node_map[@],
                                !.background = node_map[@]])

\* TreeRoot::resolve.
TreeRoot_resolve(r, node_map) ==
    IF r.panel \notin DOMAIN node_map THEN ResolvePanic(r)
    ELSE IF r.selected # NONE
         THEN IF r.selected \notin DOMAIN node_map THEN ResolvePanic(r)
              ELSE Resolved([r EXCEPT !.panel = node_map[@], !.selected = node_map[@]])
         ELSE Resolved([r EXCEPT !.panel = node_map[@]])

\* FileBrowser::resolve.
FileBrowser_resolve(b, node_map) ==
    IF b.tree_root \notin DOMAIN node_map THEN ResolvePanic(b)
    ELSE IF b.path_text \notin DOMAIN node_map THEN ResolvePanic(b)
    ELSE Resolved([b EXCEPT !.tree_root = node_map[@], !.path_text = node_map[@]])

----------------------------------------------------------------------------
(* Delivery: UserInterface::poll_message.                                  *)

Restrict(f, S) == [x \in (DOMAIN f) \cap S |-> f[x]]

\* Remove a node and everything below it from the arena, then tell every node
\* left, for every handle removed, through remove_ref.
remove_node(ui, node) ==
    LET u == unlink_node(ui, node)
        removed == Subtree(u, <<node>>, {})
        keep == (DOMAIN u.kind) \ removed
        tr == Restrict(u.tree, keep)
        rt == Restrict(u.troot, keep)
        br == Restrict(u.browser, keep)
    IN [u EXCEPT !.kind = Restrict(@, keep),
                 !.parent = Restrict(@, keep),
                 !.children = Restrict(@, keep),
                 !.widget = Restrict(@, keep),
                 !.tree = [h \in DOMAIN tr |-> Tree_remove_ref(tr[h], removed)],
                 !.troot = [h \in DOMAIN rt |-> TreeRoot_remove_ref(rt[h], removed)],
                 !.browser = [h \in DOMAIN br |-> FileBrowser_remove_ref(br[h], removed)]]

\* What the widget layer does with a message once the handlers have seen it.
ApplyWidgetMessage(ui, m) ==
    IF m.type = "Widget" /\ m.msg = "Remove" THEN remove_node(ui, m.destination)
    ELSE IF m.type = "Widget" /\ m.msg = "Visibility"
         THEN [ui EXCEPT !.widget[m.destination].visibility = m.flag]
    ELSE IF m.type = "Widget" /\ m.msg = "Background"
         THEN [ui EXCEPT !.widget[m.destination].background = m.brush]
    ELSE IF m.type = "Text" /\ m.msg = "Text"
         THEN [ui EXCEPT !.widget[m.destination].text = m.text]
    ELSE ui

handle_routed_message(c, self) ==
    LET k == c.ui.kind[self] IN
    IF k = "Tree" THEN Tree_handle_routed_message(c, self)
    ELSE IF k = "TreeRoot" THEN TreeRoot_handle_routed_message(c, self)
    ELSE IF k = "FileBrowser" THEN FileBrowser_handle_routed_message(c, self)
    ELSE c

\* The message goes to its destination, then to each ancestor in turn.
RECURSIVE bubble_message(_, _)
RECURSIVE bubble_up(_, _)
bubble_up(c, handle) ==
    IF c.ui.panicked THEN c ELSE bubble_message(c, c.ui.parent[handle])

bubble_message(c, handle) ==
    IF handle = NONE \/ c.ui.panicked THEN c
    ELSE bubble_up(handle_routed_message(c, handle), handle)

\* Take the oldest message; drop it when its destination is gone; otherwise
\* route it and let the widget layer act on it. listing is the order in which
\* the directory read during this delivery, if any, lists its entries.
routed(ui, c) ==
    IF c.ui.panicked THEN Panic(ui) ELSE ApplyWidgetMessage(c.ui, c.message)

poll_message(ui, listing) ==
    LET m == Head(ui.queue)
        u == [ui EXCEPT !.queue = Tail(@)]
    IN IF ~IsValidHandle(u, m.destination) THEN u
       ELSE routed(ui, bubble_message([ui |-> u, message |-> m, listing |-> listing],
                                      m.destination))

\* The entries of the directory that delivering the oldest message will read.
EntriesRead(ui) ==
    LET m == Head(ui.queue) IN
    IF /\ m.type = "Tree" /\ m.msg = "Expand" /\ m.flag
       /\ IsValidHandle(ui, m.destination)
       /\ ui.widget[m.destination].user_data.has
    THEN ReadDir(ui.widget[m.destination].user_data.path)[2]
    ELSE {}

----------------------------------------------------------------------------
(* The program as a state machine.                                         *)

Quiescent == Len(queue) = 0 /\ ~panicked

\* The Trees shown under a TreeRoot: those reached through the items lists.
RECURSIVE ShownBelow(_, _)
ShownBelow(ui, items) ==
    IF Len(items) = 0 THEN {}
    ELSE LET h == Head(items) IN
         (IF IsValidHandle(ui, h) /\ ui.kind[h] = "Tree"
          THEN {h} \cup ShownBelow(ui, ui.tree[h].items) ELSE {})
         \cup ShownBelow(ui, Tail(items))

TheBrowser == CHOOSE h \in DOMAIN browser : TRUE
TheRoot == IF DOMAIN troot = {} THEN NONE ELSE CHOOSE h \in DOMAIN troot : TRUE
Displayed == IF TheRoot = NONE THEN {} ELSE ShownBelow(State, troot[TheRoot].items)
PathOf(t) == widget[t].user_data.path

Install(u) ==
    /\ kind' = u.kind
    /\ parent' = u.parent
    /\ children' = u.children
    /\ widget' = u.widget
    /\ tree' = u.tree
    /\ troot' = u.troot
    /\ browser' = u.browser
    /\ queue' = u.queue
    /\ next_handle' = u.next_handle
    /\ panicked' = u.panicked
    /\ filter_calls' = u.filter_calls

\* The program starts as u.
Start(u) ==
    /\ kind = u.kind
    /\ parent = u.parent
    /\ children = u.children
    /\ widget = u.widget
    /\ tree = u.tree
    /\ troot = u.troot
    /\ browser = u.browser
    /\ queue = u.queue
    /\ next_handle = u.next_handle
    /\ panicked = u.panicked
    /\ filter_calls = u.filter_calls

\* What the environment last sent: the message; whether the queue was empty
\* when it was sent (clean); whether the case of interest held at that moment
\* (pre); whether it repeats the message sent just before (again); the next
\* free handle at that moment (mark), so that newer nodes can be told apart;
\* and how many messages were sent while others waited (count).
NoLast ==
    [op |-> "none", handle |-> NONE, path |-> <<>>, flag |-> FALSE,
     clean |-> FALSE, pre |-> FALSE, again |-> FALSE, mark |-> 0, count |-> 0]

Sent(op, h, p, b, pre, again) ==
    [op |-> op, handle |-> h, path |-> p, flag |-> b,
     clean |-> (Len(queue) = 0), pre |-> pre, again |-> again,
     mark |-> next_handle, count |-> last.count]

\* Post a message from outside.
Post(m) == Install(send_message(State, m))

\* The handles a browser takes at construction and each item built takes:
\* build_tree_item adds the content text and the seven nodes of a Tree.
HandlesPerItem == BuildTreeItemHandleAt(EmptyUi)
InitialHandles == BuildTreeItemHandleAt(EmptyUi) + 7

\* Room is left in the pool for n more items.
RoomFor(ui, n) == ui.next_handle + n * HandlesPerItem <= InitialHandles + MaxBuilt * HandlesPerItem

\* The dispatch loop polls while a message waits, the queue is not over its
\* capacity and the pool is not exhausted.
CanDeliver ==
    /\ ~panicked
    /\ Len(queue) > 0
    /\ Len(queue) <= MaxPending
    /\ RoomFor(State, 0)

\* The dispatch loop polls one message.
Deliver ==
    /\ CanDeliver
    /\ \E listing \in Listings(EntriesRead(State)) : Install(poll_message(State, listing))
    /\ UNCHANGED last

\* The paths and texts the environment sends.
SentPaths == {P_a, P_ab, P_z}
SentTexts == {P_ab, P_z}
RootPaths == {P_a, P_ab}

\* The environment sends when the queue has drained.
CanSend == ~panicked /\ Len(queue) = 0
\* The environment sends while fewer than MaxQueue messages wait, MaxSends times.
CanSendMore == ~panicked /\ Len(queue) < MaxQueue /\ last.count < MaxSends

SendSelectionChanged ==
    /\ CanSend
    /\ \E p \in SentPaths :
          /\ Post(MsgText(TheBrowser, "FileBrowser", "SelectionChanged", p))
          /\ last' = Sent("SelectionChanged", NONE, p, FALSE,
                          /\ ~PathEq(browser[TheBrowser].selection, p)
                          /\ \E t \in Displayed : PathOf(t) = p,
                          FALSE)

\* The user edits the path text box: the box holds the new text and reports it.
EditText ==
    /\ CanSend
    /\ browser[TheBrowser].path_text # NONE
    /\ \E txt \in SentTexts :
          LET pt == browser[TheBrowser].path_text
              u == [State EXCEPT !.widget[pt].text = txt]
          IN /\ Install(send_message(u, MsgText(pt, "TextBox", "Text", txt)))
             /\ last' = Sent("Text", NONE, txt, FALSE, TRUE, FALSE)

\* The user presses the mouse on a Tree that is shown.
MouseDown ==
    /\ CanSend
    /\ \E t \in Displayed :
          /\ Post(Message(t, "Widget", "MouseDown"))
          /\ last' = Sent("MouseDown", t, PathOf(t), FALSE, TRUE, FALSE)

\* The entries the browser's filter lets through.
Accepted(entries) ==
    IF browser[TheBrowser].filter = "no_dot"
    THEN {e \in entries : ~IsDotName(e)}
    ELSE entries

\* What is noted when Expand(b) is sent to the Tree t.
ExpandSent(t, b) ==
    Sent("Expand", t, PathOf(t), b,
         IF b THEN ~tree[t].is_expanded /\ Len(tree[t].items) = 0 ELSE TRUE,
         b /\ last.op = "Expand" /\ last.flag /\ last.handle = t)

\* Expand(true) is sent to a Tree that is shown, the queue being empty and the
\* pool having room for the items of its directory.
SendExpandTrue ==
    /\ CanSend
    /\ \E t \in Displayed :
          /\ RoomFor(State, Cardinality(Accepted(ReadDir(PathOf(t))[2])))
          /\ Post(MsgFlag(t, "Tree", "Expand", TRUE))
          /\ last' = ExpandSent(t, TRUE)

\* Expand(b) is sent to a Tree that is shown, while other messages may wait.
SendExpand ==
    /\ CanSendMore
    /\ \E t \in Displayed, b \in BOOLEAN :
          /\ Post(MsgFlag(t, "Tree", "Expand", b))
          /\ last' = [ExpandSent(t, b) EXCEPT !.count = @ + 1]

\* A browser as FileBrowserBuilder builds it, for /a or /a/b, with or without filter.
Init ==
    /\ \E path \in RootPaths, filter \in Filters :
          Start(FileBrowserBuilder_build(EmptyUi, path, filter))
    /\ last = NoLast

\* The browser under selection requests, text edits, mouse presses and expansions,
\* each sent once the queue has drained.
Next ==
    \/ Deliver
    \/ SendSelectionChanged
    \/ EditText
    \/ MouseDown
    \/ SendExpandTrue

Spec == Init /\ [][Next]_vars

\* The same, the dispatch loop polling as long as it can: weak fairness of
\* Deliver, WF_vars(Deliver), with ENABLED <<Deliver>>_vars written as CanDeliver
\* (a poll always takes a message off the queue or panics).
SpecLive == Spec /\ ([]<>(~CanDeliver) \/ []<><<Deliver>>_vars)

\* The browser under Expand messages alone, sent while others still wait.
NextExpand ==
    \/ Deliver
    \/ SendExpand

SpecExpand == Init /\ [][NextExpand]_vars

\* The message type a holder of items takes: a Tree or the TreeRoot.
ItemMessageType(target) == IF target \in DOMAIN troot THEN "TreeRoot" ELSE "Tree"
ItemsOf(target) ==
    IF target \in DOMAIN troot THEN troot[target].items ELSE tree[target].items
PanelOf(target) ==
    IF target \in DOMAIN troot THEN troot[target].panel ELSE tree[target].panel
Holders == DOMAIN tree \cup DOMAIN troot

\* WidgetMessage::remove is sent from outside straight to a Tree that is shown,
\* to the path text box or to the TreeRoot.
SendRemove ==
    /\ CanSend
    /\ \E h \in (Displayed \cup {browser[TheBrowser].path_text, browser[TheBrowser].tree_root})
                 \ {NONE} :
          /\ Post(Message(h, "Widget", "Remove"))
          /\ last' = Sent("Remove", h, <<>>, FALSE,
                          \E t \in Holders : h \in Range(ItemsOf(t)), FALSE)

\* The browser under expansions, mouse presses and removals from outside.
NextRemove ==
    \/ Deliver
    \/ SendExpandTrue
    \/ MouseDown
    \/ SendRemove

SpecRemove == Init /\ [][NextRemove]_vars

\* Expand(false) is sent to a Tree that is shown, the queue being empty.
SendCollapse ==
    /\ CanSend
    /\ \E t \in Displayed :
          /\ Post(MsgFlag(t, "Tree", "Expand", FALSE))
          /\ last' = ExpandSent(t, FALSE)

\* The first item the TreeRoot holds, NONE when it holds none.
TopItem == IF Len(troot[TheRoot].items) = 0 THEN NONE ELSE Head(troot[TheRoot].items)

\* Path(p) is sent to the browser, the queue being empty and the pool having
\* room for the item of p; pre tells whether the tree shown was expanded.
SendPath ==
    /\ CanSend
    /\ RoomFor(State, 1)
    /\ \E p \in RootPaths :
          /\ Post(MsgText(TheBrowser, "FileBrowser", "Path", p))
          /\ last' = Sent("Path", TopItem, p, FALSE,
                          \E t \in Displayed : Len(tree[t].items) > 0, FALSE)

\* The browser under selection requests, expansions, collapses and new paths.
NextPath ==
    \/ Deliver
    \/ SendSelectionChanged
    \/ SendExpandTrue
    \/ SendCollapse
    \/ SendPath

SpecPath == Init /\ [][NextPath]_vars

----------------------------------------------------------------------------
(* A TreeRoot on its own, with Trees two levels deep.                      *)

\* The handles of the nodes built below, in the order they are built: a border
\* outside the root; the Tree A; the Tree B holding A as its item; the Tree C;
\* the Tree D, left outside the root; the root holding B and C.
Outside == EmptyUi.next_handle
TreeA == Outside + 7
TreeB == TreeA + 7
TreeC == TreeB + 7
TreeD == TreeC + 7
Root == TreeD + 2

RootWorld ==
    LET u0 == add_node(EmptyUi, "Border", <<>>, PlainWidget)
        u1 == TreeBuilder_build(u0, TreeBuilder_new(NoData))
        u2 == TreeBuilder_build(u1, [TreeBuilder_new(NoData) EXCEPT !.items = <<TreeA>>])
        u3 == TreeBuilder_build(u2, TreeBuilder_new(NoData))
        u4 == TreeBuilder_build(u3, TreeBuilder_new(NoData))
    IN TreeRootBuilder_build(u4, <<TreeB, TreeC>>)

InitRoot ==
    /\ Start(RootWorld)
    /\ last = NoLast

\* The Trees below the TreeRoot r, at any depth.
Descendants(r) == (Subtree(State, <<r>>, {}) \ {r}) \cap DOMAIN tree
SelectedBelow(r) == {t \in Descendants(r) : tree[t].is_selected}

\* The handles Selected is sent with: NONE, a node outside the root, a Tree
\* outside the root, the Trees below the root, and a Tree's expander.
SelectedHandles == {NONE, Outside, TreeD, TreeA, TreeB, TreeC, RootWorld.tree[TreeB].expander}

\* Selected(h) is sent to the root while fewer than MaxQueue messages wait.
SendSelected ==
    /\ ~panicked
    /\ Len(queue) < MaxQueue
    /\ \E h \in SelectedHandles :
          /\ Post(MsgHandle(Root, "TreeRoot", "Selected", h))
          /\ last' = Sent("Selected", h, <<>>, FALSE, SelectedBelow(Root) # {}, FALSE)

NextRoot ==
    \/ Deliver
    \/ SendSelected

SpecRoot == InitRoot /\ [][NextRoot]_vars

\* The nodes the mouse is pressed on: the Trees below the root, the background
\* of the nested Tree A, and the Tree D that has no TreeRoot above it.
MouseTargets == {TreeA, TreeB, TreeC, TreeD, RootWorld.tree[TreeA].background}

\* A MouseDown message, claimed already or not, is sent when the queue is empty.
MouseDownOn ==
    /\ CanSend
    /\ \E t \in MouseTargets, claimed \in BOOLEAN :
          /\ Post([Message(t, "Widget", "MouseDown") EXCEPT !.handled = claimed])
          /\ last' = Sent("MouseDown", t, <<>>, claimed,
                          find_by_criteria_up(State, t, "TreeRoot") # NONE, FALSE)

\* The standalone root under mouse presses and Selected requests.
NextMouse ==
    \/ Deliver
    \/ MouseDownOn
    \/ SendSelected

SpecMouse == InitRoot /\ [][NextMouse]_vars

----------------------------------------------------------------------------
(* The resolve pass over the nodes of a widget graph.                      *)

\* The handles of the copy lie this far above those of the source arena.
Shift == 100

\* The maps the pass is run with: the handles in keys have an entry.
NodeMap(keys) == [h \in keys |-> h + Shift]

\* The elements of a set of handles in increasing order.
RECURSIVE SortedKeys(_)
SortedKeys(S) ==
    IF S = {} THEN <<>>
    ELSE LET least == CHOOSE h \in S : \A o \in S : h <= o
         IN <<least>> \o SortedKeys(S \ {least})

\* The dispatch loop run until the queue is empty.
RECURSIVE Drain(_)
Drain(ui) ==
    IF Len(ui.queue) = 0 \/ ui.panicked THEN ui ELSE Drain(poll_message(ui, <<>>))

\* The world w after the mouse was pressed on the Tree t and the queue drained.
Pressed(w, t) == Drain(send_message(w, Message(t, "Widget", "MouseDown")))

\* The graphs resolved: a browser as built or with its root item selected, and
\* the standalone root as built or with the Tree A selected.
InitResolve ==
    /\ \/ \E path \in RootPaths, filter \in Filters, pressed \in BOOLEAN :
             \E w \in {FileBrowserBuilder_build(EmptyUi, path, filter)} :
                Start(IF pressed THEN Pressed(w, BuildTreeItemHandleAt(EmptyUi)) ELSE w)
       \/ \E pressed \in BOOLEAN :
             Start(IF pressed THEN Pressed(RootWorld, TreeA) ELSE RootWorld)
    /\ last = NoLast

\* What is noted when the node h is resolved with a map having the entries keys.
ResolveNoted(h, keys) == Sent("resolve", h, SortedKeys(keys), FALSE, TRUE, FALSE)

\* Tree::resolve is run on a Tree of the graph. A node still holding handles of the source arena is resolved once.
ResolveTree ==
    /\ ~panicked
    /\ \E t \in DOMAIN tree :
          /\ tree[t].panel \in DOMAIN kind
          /\ \E keys \in SUBSET (({tree[t].content, tree[t].expander, tree[t].panel,
                                    tree[t].background} \cup Range(tree[t].items))
                                  \ {NONE}) :
                LET res == Tree_resolve(tree[t], NodeMap(keys)) IN
                /\ tree' = [tree EXCEPT ![t] = res.node]
                /\ panicked' = res.panic
                /\ last' = ResolveNoted(t, keys)
    /\ UNCHANGED <<kind, parent, children, widget, troot, browser, queue, next_handle,
                   filter_calls>>

ResolveTreeRoot ==
    /\ ~panicked
    /\ \E r \in DOMAIN troot :
          /\ troot[r].panel \in DOMAIN kind
          /\ \E keys \in SUBSET (({troot[r].panel, troot[r].selected, r}
                                   \cup Range(troot[r].items)) \ {NONE}) :
                LET res == TreeRoot_resolve(troot[r], NodeMap(keys)) IN
                /\ troot' = [troot EXCEPT ![r] = res.node]
                /\ panicked' = res.panic
                /\ last' = ResolveNoted(r, keys)
    /\ UNCHANGED <<kind, parent, children, widget, tree, browser, queue, next_handle,
                   filter_calls>>

ResolveFileBrowser ==
    /\ ~panicked
    /\ \E b \in DOMAIN browser :
          /\ browser[b].tree_root \in DOMAIN kind
          /\ \E keys \in SUBSET {browser[b].tree_root, browser[b].path_text, b} :
                LET res == FileBrowser_resolve(browser[b], NodeMap(keys)) IN
                /\ browser' = [browser EXCEPT ![b] = res.node]
                /\ panicked' = res.panic
                /\ last' = ResolveNoted(b, keys)
    /\ UNCHANGED <<kind, parent, children, widget, tree, troot, queue, next_handle,
                   filter_calls>>

NextResolve ==
    \/ ResolveTree
    \/ ResolveTreeRoot
    \/ ResolveFileBrowser

SpecResolve == InitResolve /\ [][NextResolve]_vars

----------------------------------------------------------------------------
(* Trees under clicks, Expand messages and the mouse entering and leaving. *)

\* The standalone root again, its Trees built with_expanded(expanded).
TreeWorld(expanded) ==
    LET b == [TreeBuilder_new(NoData) EXCEPT !.is_expanded = expanded]
        u0 == add_node(EmptyUi, "Border", <<>>, PlainWidget)
        u1 == TreeBuilder_build(u0, b)
        u2 == TreeBuilder_build(u1, [b EXCEPT !.items = <<TreeA>>])
        u3 == TreeBuilder_build(u2, b)
        u4 == TreeBuilder_build(u3, b)
    IN TreeRootBuilder_build(u4, <<TreeB, TreeC>>)

\* The Trees as the default builder or with_expanded(false) builds them, none
\* selected or the Tree A selected by a mouse press.
InitTree ==
    /\ \E expanded \in BOOLEAN, pressed \in BOOLEAN :
          \E w \in {TreeWorld(expanded)} :
             Start(IF pressed THEN Pressed(w, TreeA) ELSE w)
    /\ last = NoLast

\* A Click is sent to the expander of the Tree A or B, or to its background,
\* while fewer than MaxQueue messages wait. For a run of clicks on the expander
\* of one Tree, flag notes the expansion an alternation from the state at the
\* first click gives, and pre whether the queue was empty at the first click.
SendClick ==
    /\ CanSendMore
    /\ \E t \in {TreeA, TreeB}, on_expander \in BOOLEAN :
          LET again == last.op = "Click" /\ last.handle = t IN
          /\ Post(Message(IF on_expander THEN tree[t].expander ELSE tree[t].background,
                          "Button", "Click"))
          /\ last' = [Sent(IF on_expander THEN "Click" ELSE "ClickOther", t, <<>>,
                           IF again THEN ~last.flag ELSE ~tree[t].is_expanded,
                           IF again THEN last.pre ELSE Len(queue) = 0,
                           again)
                      EXCEPT !.count = @ + 1]

\* Expand(b) is sent to the Tree A or B, or to the panel of A, the queue being empty.
SendExpandTo ==
    /\ CanSend
    /\ \E dst \in {TreeA, TreeB, RootWorld.tree[TreeA].panel}, b \in BOOLEAN :
          /\ Post(MsgFlag(dst, "Tree", "Expand", b))
          /\ last' = Sent("Expand", dst, <<>>, b, TRUE, FALSE)

\* The nodes the mouse enters and leaves: the Tree A, nested below the Tree B,
\* the background of A, and B.
HoverTargets == {TreeA, TreeB, RootWorld.tree[TreeA].background}

\* The mouse enters or leaves a node, the message claimed already or not.
Hover ==
    /\ CanSend
    /\ \E dst \in HoverTargets, enter \in BOOLEAN, claimed \in BOOLEAN :
          /\ Post([Message(dst, "Widget", IF enter THEN "MouseEnter" ELSE "MouseLeave")
                      EXCEPT !.handled = claimed])
          /\ last' = Sent("Hover", dst, <<>>, claimed, enter, FALSE)

NextTree ==
    \/ Deliver
    \/ SendClick
    \/ SendExpandTo
    \/ Hover

SpecTree == InitTree /\ [][NextTree]_vars

\* The Trees alive, and those that can become items of target: linking a node
\* below itself is left out.
LiveTrees == DOMAIN tree
ItemsFor(target) == {h \in LiveTrees : target \notin Subtree(State, <<h>>, {})}

\* The lists of at most MaxItems different handles out of S.
RECURSIVE ListsOf(_, _)
ListsOf(S, n) ==
    IF n = 0 THEN {<<>>}
    ELSE LET shorter == ListsOf(S, n - 1) IN
         shorter \cup {Append(l, h) : l \in {x \in shorter : Len(x) = n - 1},
                                      h \in S}
DistinctLists(S) ==
    {l \in ListsOf(S, MaxItems) : \A i, j \in 1..Len(l) : i # j => l[i] # l[j]}

\* The holders the environment sends to: the Tree B and the root.
Targets == {TreeB, Root} \cap Holders
\* The environment sends, MaxSends times in all, when the queue has drained.
CanSendItems == CanSend /\ last.count < MaxSends
\* What is noted when op is sent to target; pre tells whether the handles sent
\* are among the items target holds already.
ItemsSent(op, target, pre) ==
    [Sent(op, target, <<>>, FALSE, pre, FALSE) EXCEPT !.count = @ + 1]

\* AddItem(item) is sent to a Tree or to the root, the queue being empty.
SendAddItem ==
    /\ CanSendItems
    /\ \E target \in Targets : \E item \in ItemsFor(target) :
          /\ Post(MsgHandle(target, ItemMessageType(target), "AddItem", item))
          /\ last' = ItemsSent("AddItem", target, item \in Range(ItemsOf(target)))

\* RemoveItem(item) is sent to a Tree or to the root, the queue being empty.
SendRemoveItem ==
    /\ CanSendItems
    /\ \E target \in Targets : \E item \in LiveTrees :
          /\ Post(MsgHandle(target, ItemMessageType(target), "RemoveItem", item))
          /\ last' = ItemsSent("RemoveItem", target, item \in Range(ItemsOf(target)))

\* SetItems(items) is sent to a Tree, Items(items) to the root.
SendSetItems ==
    /\ CanSendItems
    /\ \E target \in Targets : \E items \in DistinctLists(ItemsFor(target)) :
          /\ Post(MsgList(target, ItemMessageType(target),
                          IF target \in DOMAIN troot THEN "Items" ELSE "SetItems", items))
          /\ last' = ItemsSent("SetItems", target, Range(items) \cap Range(ItemsOf(target)) # {})

NextItems ==
    \/ Deliver
    \/ SendAddItem
    \/ SendRemoveItem
    \/ SendSetItems

SpecItems == InitRoot /\ [][NextItems]_vars

----------------------------------------------------------------------------
(* Properties of the TreeRoot.                                             *)

\* C1: below a TreeRoot at most one Tree has is_selected set, and the one that
\* has is the Tree the root holds in selected.
C1_SingleSelection ==
    \A r \in DOMAIN troot :
        /\ Cardinality(SelectedBelow(r)) <= 1
        /\ \A t \in SelectedBelow(r) : troot[r].selected = t

\* The Tree A, an item of the item B, was selected while another Tree was.
C1_Witness ==
    /\ Quiescent /\ last.op = "Selected" /\ last.pre /\ last.handle = TreeA
    /\ tree[TreeA].is_selected /\ troot[Root].selected = TreeA

\* C2: once the queue has drained, the items of every Tree and of the root are
\* the children of its panel, in the same order and as many times.
C2_ItemsMirrorPanel ==
    Quiescent =>
        \A target \in Holders :
            IsValidHandle(State, PanelOf(target)) =>
                ItemsOf(target) = children[PanelOf(target)]

----------------------------------------------------------------------------
(* Properties of the browser.                                              *)

\* C8: no Tree, TreeRoot or FileBrowser holds, in items, selected, tree_root or
\* path_text, the handle of a node that has been removed.
C8_NoRemovedHandleKept ==
    LET live == DOMAIN kind \cup {NONE} IN
    /\ \A t \in DOMAIN tree : Range(tree[t].items) \subseteq live
    /\ \A r \in DOMAIN troot : Range(troot[r].items) \subseteq live /\ troot[r].selected \in live
    /\ \A b \in DOMAIN browser : browser[b].tree_root \in live /\ browser[b].path_text \in live

Selection == browser[TheBrowser].selection
PathText == widget[browser[TheBrowser].path_text].text
ItemPaths(t) == {PathOf(tree[t].items[i]) : i \in 1..Len(tree[t].items)}
TreesWithPath(p) == {t \in Displayed : PathOf(t) = p}

\* A SetItems message for the Tree t waits in the queue.
SetItemsWaiting(t) ==
    \E i \in 1..Len(queue) :
        queue[i].type = "Tree" /\ queue[i].msg = "SetItems" /\ queue[i].destination = t

\* C3: Expand(true) delivered twice in a row to a Tree leaves, once the queue has
\* drained, the Tree expanded with its panel visible and one item per accepted
\* entry of its directory, none of them twice.
C3_ExpandTwiceNoDuplicates ==
    (Quiescent /\ last.op = "Expand" /\ last.again /\ last.handle \in DOMAIN tree) =>
        LET t == last.handle
            acc == Accepted(ReadDir(PathOf(t))[2])
        IN /\ tree[t].is_expanded
           /\ widget[tree[t].panel].visibility
           /\ Len(tree[t].items) = Cardinality(acc)
           /\ ItemPaths(t) = acc

\* C4: a Tree whose last handled Expand was Expand(false), the SetItems that
\* the browser sent for it delivered, has no items.
C4_CollapseEvicts ==
    \A t \in DOMAIN tree :
        (~tree[t].is_expanded /\ ~SetItemsWaiting(t)) => Len(tree[t].items) = 0

\* Root, child and grandchild were built and the root then collapsed: it is
\* hidden and empty, and every Tree below it is gone.
C4_Witness ==
    /\ Quiescent
    /\ last.op = "Expand" /\ ~last.flag
    /\ last.handle \in DOMAIN tree
    /\ ~widget[tree[last.handle].panel].visibility
    /\ Len(tree[last.handle].items) = 0
    /\ next_handle = InitialHandles + 3 * HandlesPerItem
    /\ Cardinality(DOMAIN tree) = 1

\* C5: SelectionChanged(p), p being the path of a displayed Tree and not the
\* selection, ends with selection = p, the text box showing p, and every Tree
\* of path p highlighted and held as selected by the TreeRoot.
C5_SelectionRoundTrip ==
    (Quiescent /\ last.op = "SelectionChanged" /\ last.pre) =>
        /\ Selection = last.path
        /\ PathText = ToStringLossy(last.path)
        /\ \A t \in TreesWithPath(last.path) :
              tree[t].is_selected /\ troot[TheRoot].selected = t

\* C6: when exactly one displayed Tree has path p and another displayed Tree's
\* path begins with the text of p, the lookup of p returns the Tree of path p.
C6_LookupExact ==
    \A t \in Displayed :
        (/\ TreesWithPath(PathOf(t)) = {t}
         /\ \E o \in Displayed \ {t} : StartsWith(PathOf(o), PathOf(t)))
        => find_tree(State, TheRoot, PathOf(t)) = Found(t)

\* C7: Expand(true) sent to a collapsed Tree without items ends with its items
\* being one new Tree per accepted entry of its directory, each carrying the
\* entry's path, no Tree built for a rejected entry, and the filter having been
\* invoked once per listed entry.
C7_ExpandEnumerates ==
    (Quiescent /\ last.op = "Expand" /\ last.flag /\ last.pre) =>
        LET t == last.handle
            entries == ReadDir(PathOf(t))[2]
            filter == browser[TheBrowser].filter
            acc == IF filter = "no_dot" THEN {e \in entries : ~IsDotName(e)} ELSE entries
            items == tree[t].items
            built == {h \in DOMAIN tree : h >= last.mark}
        IN /\ Len(items) = Cardinality(acc)
           /\ Range(items) = built
           /\ {PathOf(h) : h \in built} = acc
           /\ \A h \in built : parent[h] = tree[t].panel
           /\ filter # "none" =>
                 /\ Len(filter_calls) = Cardinality(entries)
                 /\ Range(filter_calls) = entries

\* A directory with an accepted and a rejected entry was expanded under a filter.
C7_Witness ==
    /\ Quiescent /\ last.op = "Expand" /\ last.flag /\ last.pre
    /\ browser[TheBrowser].filter = "no_dot"
    /\ last.path = P_ab
    /\ ItemPaths(last.handle) = {P_abc}

\* C9: every message sequence started by one external message ends: a waiting
\* message always leads to an empty queue.
C9_LoopTerminates == (Len(queue) > 0) ~> (Len(queue) = 0)

\* A SelectionChanged(p) whose lookup found a Tree of another path was followed
\* by a second SelectionChanged, and the queue has drained.
C9_Witness ==
    /\ Quiescent /\ last.op = "SelectionChanged" /\ last.pre
    /\ Selection # last.path

\* C10: in every quiescent state the text box shows the text of selection and
\* the Tree the TreeRoot holds as selected, if any, carries selection as path.
C10_ViewsAgree ==
    Quiescent =>
        /\ PathText = ToStringLossy(Selection)
        /\ troot[TheRoot].selected # NONE =>
              PathEq(PathOf(troot[TheRoot].selected), Selection)

----------------------------------------------------------------------------
(* Properties of the browser under collapses and new paths.                *)

\* C11: once selection holds a path, in every state where the queue has drained
\* some Tree shown under the TreeRoot carries selection as its path, also after
\* the parent of the selected Tree was collapsed or a Path message rebuilt the
\* tree.
C11_SelectionDisplayed ==
    (Quiescent /\ Selection # P_empty) =>
        \E t \in Displayed : PathEq(PathOf(t), Selection)

\* C13: Path(p) handled and the queue drained, the TreeRoot holds exactly one
\* item: a Tree built for this message, collapsed, without items, carrying p;
\* the item held before is gone, and so is every Tree older than the message.
C13_PathRebuilds ==
    (Quiescent /\ last.op = "Path") =>
        /\ Len(troot[TheRoot].items) = 1
        /\ LET t == TopItem IN
              /\ t \in DOMAIN tree
              /\ t >= last.mark
              /\ ~tree[t].is_expanded
              /\ Len(tree[t].items) = 0
              /\ widget[t].user_data.has /\ PathOf(t) = last.path
              /\ parent[t] = troot[TheRoot].panel
        /\ ~IsValidHandle(State, last.handle)
        /\ \A h \in DOMAIN tree : h >= last.mark

\* Path(/a/b) was sent to a browser showing /a expanded, and the queue has drained.
C13_Witness ==
    /\ Quiescent /\ last.op = "Path" /\ last.pre
    /\ last.path = P_ab
    /\ TopItem \in DOMAIN tree
    /\ PathOf(TopItem) = P_ab

----------------------------------------------------------------------------
(* Properties of Selected requests to a TreeRoot on its own.               *)

\* C12: Selected(new) sent while a Tree is highlighted, new being no Tree below
\* the root (NONE, a node that is no Tree, a Tree outside the root), is
\* ignored: once it is handled a Tree below the root is still highlighted.
C12_ForeignTargetIgnored ==
    (/\ Quiescent /\ last.op = "Selected" /\ last.clean /\ last.pre
     /\ last.handle \notin Descendants(Root))
    => SelectedBelow(Root) # {}

\* C17: whenever the root's selected is not NONE, the Tree it addresses has
\* is_selected set.
C17_SelectedIsHighlighted ==
    troot[Root].selected # NONE =>
        /\ troot[Root].selected \in DOMAIN tree
        /\ tree[troot[Root].selected].is_selected

\* The positions in q of the messages destined for d.
MessagesTo(q, d) == {i \in 1..Len(q) : q[i].destination = d}

\* The root handles Selected, the only message waiting: the step takes the
\* message off the queue and leaves what the handler sent.
SelectedHandled ==
    /\ Len(queue) = 1
    /\ Head(queue).type = "TreeRoot" /\ Head(queue).msg = "Selected"
    /\ Head(queue).destination = Root
    /\ (Len(queue') = 0 \/ Head(queue') # Head(queue))

\* C18: the root handling Selected(new), new not its selected: every Tree below
\* it gets is_selected = (handle = new) and exactly one Background message to
\* its background, with selected_brush for new and normal_brush for the others,
\* and nothing else is sent; new being its selected: no flag changes and
\* nothing is sent.
C18_SelectedVisitsEachTree ==
    [][SelectedHandled =>
          LET new == Head(queue).handle IN
          IF new = troot[Root].selected
          THEN Len(queue') = 0 /\ tree' = tree
          ELSE /\ Len(queue') = Cardinality(Descendants(Root))
               /\ \A t \in Descendants(Root) :
                     /\ tree'[t].is_selected = (t = new)
                     /\ \E i \in 1..Len(queue') :
                           /\ MessagesTo(queue', tree[t].background) = {i}
                           /\ queue'[i].type = "Widget" /\ queue'[i].msg = "Background"
                           /\ queue'[i].brush = IF t = new THEN tree[t].selected_brush
                                                ELSE tree[t].normal_brush
               /\ \A t \in DOMAIN tree \ Descendants(Root) :
                     tree'[t].is_selected = tree[t].is_selected]_vars

\* The root has just handled Selected(A), A being a Tree below the Tree B: a
\* Background message waits for each of the three Trees below the root.
C18_Witness ==
    /\ last.op = "Selected" /\ last.clean /\ last.handle = TreeA
    /\ Len(queue) = 3
    /\ \A i \in 1..3 : queue[i].msg = "Background"
    /\ tree[TreeA].is_selected /\ ~tree[TreeB].is_selected /\ ~tree[TreeC].is_selected
    /\ troot[Root].selected = TreeA

----------------------------------------------------------------------------
(* Properties of single handlers of the browser. Under Spec the environment *)
(* sends only when the queue is empty, so a step taken while a message     *)
(* waits is the delivery of the oldest message.                            *)

\* The messages the handlers sent while the oldest message was delivered.
SentNow == SubSeq(queue', Len(queue), Len(queue'))

\* C19: the browser handling Text(txt) destined for its path_text leaves
\* selection, path and the text of the box as they were and sends one Selected
\* message to its TreeRoot for the Tree the lookup of txt returns, or nothing at
\* all when the lookup returns no Tree.
C19_TextOnlyRequests ==
    [][(/\ Len(queue) > 0
        /\ Head(queue).type = "TextBox" /\ Head(queue).msg = "Text"
        /\ Head(queue).destination = browser[TheBrowser].path_text) =>
          LET b == browser[TheBrowser]
              found == find_tree(State, b.tree_root, Head(queue).text)
          IN /\ browser' = browser
             /\ widget'[b.path_text].text = widget[b.path_text].text
             /\ ~panicked'
             /\ SentNow = IF found.handle = NONE THEN <<>>
                          ELSE <<MsgHandle(b.tree_root, "TreeRoot", "Selected", found.handle)>>]_vars

\* The browser has just handled a text edit naming a Tree that is shown: one
\* Selected message waits and selection is not the text yet.
C19_Witness ==
    /\ last.op = "Text" /\ ~panicked
    /\ Len(queue) = 1
    /\ Head(queue).type = "TreeRoot" /\ Head(queue).msg = "Selected"
    /\ Head(queue).handle \in Displayed
    /\ ~PathEq(Selection, last.path)
    /\ PathText = last.path

\* C20: the browser handling SelectionChanged(path): path being its selection,
\* or the lookup of path returning no Tree, selection stays and nothing is
\* sent; otherwise selection becomes path and two messages are sent, the text
\* of path to path_text and then Selected of the Tree found to tree_root.
C20_SelectionChangedCommits ==
    [][(/\ Len(queue) > 0
        /\ Head(queue).type = "FileBrowser" /\ Head(queue).msg = "SelectionChanged"
        /\ Head(queue).destination = TheBrowser) =>
          LET b == browser[TheBrowser]
              path == Head(queue).text
              found == find_tree(State, b.tree_root, path)
          IN /\ ~panicked'
             /\ IF PathEq(b.selection, path) \/ found.handle = NONE
                THEN browser' = browser /\ SentNow = <<>>
                ELSE /\ browser' = [browser EXCEPT ![TheBrowser].selection = path]
                     /\ SentNow = <<MsgText(b.path_text, "Text", "Text", ToStringLossy(path)),
                                    MsgHandle(b.tree_root, "TreeRoot", "Selected",
                                              found.handle)>>]_vars

\* The browser has just handled SelectionChanged(p) for the path of a Tree that
\* is shown: selection is p, and the text and the Selected message wait.
C20_Witness ==
    /\ last.op = "SelectionChanged" /\ last.pre /\ ~panicked
    /\ Selection = last.path
    /\ Len(queue) = 2
    /\ queue[1].type = "Text" /\ queue[1].destination = browser[TheBrowser].path_text
    /\ queue[2].type = "TreeRoot" /\ queue[2].msg = "Selected"

\* C16: a mouse press on a Tree t that is shown, sent when the queue is empty,
\* ends once the queue has drained with the root's selected being t, t the only
\* Tree highlighted, and selection being the path of t.
C16_MouseDownSelects ==
    (Quiescent /\ last.op = "MouseDown") =>
        /\ troot[TheRoot].selected = last.handle
        /\ {t \in DOMAIN tree : tree[t].is_selected} = {last.handle}
        /\ PathEq(Selection, last.path)

----------------------------------------------------------------------------
(* Properties of mouse presses on nested Trees.                            *)

\* The oldest message after the handlers of its destination and of every
\* ancestor have seen it.
Bubbled ==
    bubble_message([ui |-> State, message |-> Head(queue), listing |-> <<>>],
                   Head(queue).destination).message

\* C15: one unclaimed MouseDown message bubbling through nested Trees below a
\* TreeRoot makes exactly one Selected message be sent, to that root and naming
\* the innermost Tree, and ends claimed; bubbling through a Tree with no
\* TreeRoot above it, it makes nothing be sent and ends unclaimed.
C15_InnermostTreeClaims ==
    [][(/\ Len(queue) = 1
        /\ Head(queue).type = "Widget" /\ Head(queue).msg = "MouseDown"
        /\ ~Head(queue).handled
        /\ (Len(queue') = 0 \/ Head(queue') # Head(queue))) =>
          LET dst == Head(queue).destination
              inner == find_by_criteria_up(State, dst, "Tree")
              root == find_by_criteria_up(State, dst, "TreeRoot")
          IN IF root # NONE
             THEN /\ queue' = <<MsgHandle(root, "TreeRoot", "Selected", inner)>>
                  /\ Bubbled.handled
             ELSE /\ queue' = <<>>
                  /\ ~Bubbled.handled]_vars

\* An unclaimed press on the background of the Tree A, nested below the Tree B,
\* has just been delivered: one Selected message naming A waits.
C15_Witness ==
    /\ last.op = "MouseDown" /\ last.clean /\ ~last.flag
    /\ last.handle = RootWorld.tree[TreeA].background
    /\ queue = <<MsgHandle(Root, "TreeRoot", "Selected", TreeA)>>

----------------------------------------------------------------------------
(* Properties of resolve.                                                  *)

\* The handle h as the map m rewrites it when it has an entry for h.
Mapped(m, h) == IF h \in DOMAIN m THEN m[h] ELSE h

\* What a step of the resolve pass does to the node it is run on: it fails when
\* a required handle has no entry, and otherwise rewrites the required handles
\* and content, and nothing else. with_selected tells whether a TreeRoot's
\* selected, when not NONE, counts as a required handle that is rewritten.
ResolveEffect(with_selected) ==
    LET n == last'.handle
        m == NodeMap(Range(last'.path))
        required ==
            IF n \in DOMAIN tree
            THEN {tree[n].expander, tree[n].panel, tree[n].background}
            ELSE IF n \in DOMAIN troot
            THEN {troot[n].panel}
                 \cup (IF with_selected THEN {troot[n].selected} \ {NONE} ELSE {})
            ELSE {browser[n].tree_root, browser[n].path_text}
    IN IF required \subseteq DOMAIN m
       THEN /\ ~panicked'
            /\ tree' = [t \in DOMAIN tree |->
                          IF t = n THEN [tree[t] EXCEPT !.expander = m[@],
                                                        !.panel = m[@],
                                                        !.background = m[@],
                                                        !.content = Mapped(m, @)]
                          ELSE tree[t]]
            /\ troot' = [r \in DOMAIN troot |->
                           IF r = n THEN [troot[r] EXCEPT
                                             !.panel = m[@],
                                             !.selected = IF with_selected THEN Mapped(m, @)
                                                          ELSE @]
                           ELSE troot[r]]
            /\ browser' = [b \in DOMAIN browser |->
                             IF b = n THEN [browser[b] EXCEPT !.tree_root = m[@],
                                                              !.path_text = m[@]]
                             ELSE browser[b]]
       ELSE panicked' /\ tree' = tree /\ troot' = troot /\ browser' = browser

\* C14 as stated: resolve rewrites exactly expander, panel, background and a
\* mapped content of a Tree, panel of a TreeRoot, tree_root and path_text of a
\* FileBrowser, and fails if and only if one of the required handles panel,
\* background, expander, tree_root, path_text has no entry in the map.
C14_ResolveExactFields == [][ResolveEffect(FALSE)]_vars

\* C14 amended: the same, a TreeRoot's selected being rewritten as well when it
\* is not NONE and then being a required handle too.
C14_ResolveRewrites == [][ResolveEffect(TRUE)]_vars

\* A TreeRoot holding a selected Tree was resolved with a map that has entries
\* for its panel and its selected: both now lie in the copy.
C14_Witness ==
    /\ last.op = "resolve" /\ ~panicked
    /\ last.handle \in DOMAIN troot
    /\ troot[last.handle].panel > Shift
    /\ troot[last.handle].selected > Shift

----------------------------------------------------------------------------
(* Properties of a Tree's own handlers.                                    *)

\* The text of the label of the expander of the Tree t.
Label(t) == widget[children[tree[t].expander][1]].text

\* The oldest message is delivered: every message sent while others wait
\* changes what is noted in last, a delivery does not.
HeadDelivered == Len(queue) > 0 /\ last' = last

\* C21: a Tree handling Expand(b) destined for itself sets is_expanded = b and
\* sends Visibility(b) to its panel and the text "-" or "+" to the label of its
\* expander, leaving every other field of every Tree as it was; an Expand
\* destined for a node that is no Tree changes nothing and sends nothing; a
\* Click destined for the expander of a Tree sends Expand(not is_expanded) to
\* that Tree and changes no Tree.
C21_ExpandAndClick ==
    [][(HeadDelivered /\ Head(queue).type \in {"Tree", "Button"}) =>
          LET m == Head(queue)
              dst == m.destination
          IN /\ ~panicked'
             /\ IF m.type = "Tree" /\ m.msg = "Expand"
                THEN IF dst \in DOMAIN tree
                     THEN /\ tree' = [tree EXCEPT ![dst].is_expanded = m.flag]
                          /\ SentNow =
                                <<MsgFlag(tree[dst].panel, "Widget", "Visibility", m.flag),
                                  MsgText(children[tree[dst].expander][1], "Text", "Text",
                                          IF m.flag THEN T_minus ELSE T_plus)>>
                     ELSE tree' = tree /\ SentNow = <<>>
                ELSE /\ tree' = tree
                     /\ LET owners == {t \in DOMAIN tree : tree[t].expander = dst} IN
                        IF m.msg = "Click" /\ owners # {}
                        THEN \E t \in owners :
                                SentNow = <<MsgFlag(t, "Tree", "Expand", ~tree[t].is_expanded)>>
                        ELSE SentNow = <<>>]_vars

\* Expand(true) sent to the Tree A, built collapsed below the Tree B, has been
\* handled and the queue has drained: A is expanded, B is as it was built.
C21_Witness ==
    /\ Quiescent /\ last.op = "Expand" /\ last.flag /\ last.handle = TreeA
    /\ tree[TreeA].is_expanded /\ ~tree[TreeB].is_expanded
    /\ Label(TreeA) = T_minus
    /\ widget[tree[TreeA].panel].visibility

\* C22: after a run of n clicks on the expander of a Tree, begun with the queue
\* empty, has been delivered and the queue has drained, is_expanded is what n
\* alternations from its value at the first click give.
C22_ClicksAlternate ==
    (Quiescent /\ last.op = "Click" /\ last.pre) =>
        tree[last.handle].is_expanded = last.flag

\* C23: in every state where the queue has drained, for every Tree, the label of
\* the expander is "-" and the panel is visible exactly when is_expanded is true.
C23_LabelAndPanelAgree ==
    Quiescent =>
        \A t \in DOMAIN tree :
            /\ (Label(t) = T_minus) = tree[t].is_expanded
            /\ widget[tree[t].panel].visibility = tree[t].is_expanded

\* C24: a Tree handling an unclaimed MouseEnter (MouseLeave) claims it and, its
\* is_selected being false, sends one Background message with hovered_brush
\* (normal_brush) to its background; being selected it sends nothing; a message
\* claimed already makes nothing be sent; no field of any Tree changes.
C24_HoverPaintsUnselected ==
    [][(/\ HeadDelivered
        /\ Head(queue).type = "Widget"
        /\ Head(queue).msg \in {"MouseEnter", "MouseLeave"}) =>
          LET m == Head(queue)
              t == find_by_criteria_up(State, m.destination, "Tree")
          IN /\ tree' = tree
             /\ Bubbled.handled
             /\ SentNow = IF m.handled \/ tree[t].is_selected THEN <<>>
                          ELSE <<MsgBrush(tree[t].background, "Widget", "Background",
                                          IF m.msg = "MouseEnter" THEN tree[t].hovered_brush
                                          ELSE tree[t].normal_brush)>>]_vars

\* The mouse has just entered the Tree A, which is not selected: the message
\* painting its background with hovered_brush waits.
C24_Witness ==
    /\ last.op = "Hover" /\ last.pre /\ ~last.flag /\ last.handle = TreeA
    /\ ~tree[TreeA].is_selected
    /\ queue = <<MsgBrush(tree[TreeA].background, "Widget", "Background",
                          tree[TreeA].hovered_brush)>>

\* The handles the Tree or TreeRoot n holds in its fields.
HandleFields(n) ==
    (IF n \in DOMAIN tree
     THEN {tree[n].expander, tree[n].content, tree[n].panel, tree[n].background}
          \cup Range(tree[n].items)
     ELSE {troot[n].panel, troot[n].selected} \cup Range(troot[n].items)) \ {NONE}

\* C25: a copy of a Tree or TreeRoot resolved with a map that has an entry for
\* every handle it held holds, in every handle field, the entries of items and
\* selected included, a handle of the copy: none addresses a node of the source.
C25_CopyLeavesSource ==
    (/\ last.op = "resolve" /\ ~panicked
     /\ last.handle \in DOMAIN tree \cup DOMAIN troot
     /\ \A f \in HandleFields(last.handle) :
           (IF f > Shift THEN f - Shift ELSE f) \in Range(last.path))
    => \A f \in HandleFields(last.handle) : f > Shift /\ f \notin DOMAIN kind

====
